---------------------------- MODULE Spec2Model ----------------------------
(***************************************************************************)
(* Model of jira-worklogs.py (class JiraClient and its driver):            *)
(*   - the offset paginator   _get_paginated_results                       *)
(*   - the cursor paginator   _get_paginated_results_with_next_page_link   *)
(*   - worklog sync           retrieve_worklogs_updated_since and the      *)
(*                            date filter retrieve_worklogs_in_date_range  *)
(*   - attribution            filter_worklogs_by_recursos and              *)
(*                            assign_proyecto_economico                    *)
(*   - issue resolution       retrieve_issues_for_worklogs, search_issues  *)
(*   - server faults          failure statuses and missing response fields *)
(*   - two offset iterations  sharing the caller's parameters dict         *)
(* Each component has its own specification over the shared variables; the *)
(* variables of the other components stay at their idle values.            *)
(***************************************************************************)
EXTENDS Integers, Sequences, FiniteSets, TLC

VARIABLES
    \* ---- the Jira server's conduct
    srv_fault,          \* the fault it has yet to show once: "none", a kind, or "spent"
    \* ---- offset paginator (one iteration) and the server it talks to
    srv_total,          \* number of records the server holds
    parameters,         \* the request-parameters dict of the call
    results_per_page,   \* local of the generator
    count_next,         \* local of the generator
    response_json,      \* the last parsed response
    off_pc,             \* "start" | "request" | "yield" | "done" | "raised" | "idle"
    off_yielded,        \* what the consumer received: a sequence of record ranges
    off_log,            \* the exchanges so far: request sent and what came back
    \* ---- cursor paginator (one iteration) and the page chain it walks
    srv_pages,          \* the server's pages; the URL of page i is i
    url,                \* local of the generator: the URL to request next
    is_last_page,       \* local of the generator
    cur_yielded,        \* what the consumer received, in order
    cur_requests,       \* the URLs requested, in order
    cur_error,          \* "none", or the exception the generator raised
    \* ---- worklog sync and date filter
    sync_pc,            \* "collect" | "fetch" | "filter" | "done" | "raised" | "idle"
    worklog_ids,        \* line 103
    ids_in_groups_per_page, \* line 111
    next_group,         \* position of the for loop of line 117
    worklogs_by_id,     \* line 115: a dict, kept as <<key, value>> pairs in insertion order
    bulk_requests,      \* the "ids" bodies posted to worklog/list, in order
    bulk_responses,     \* the bodies of the responses to them, in order
    bulk_statuses,      \* the status codes of those responses, in order
    all_worklogs,       \* line 163
    start_date,         \* arguments of retrieve_worklogs_in_date_range
    end_date,
    filtered_worklogs,  \* line 166
    \* ---- attribution (the driver, lines 309-319)
    attr_pc,            \* "frame" | "filter" | "assign" | "done" | "error" | "idle"
    recursos_df,        \* the Recurso column of sheet Recursos
    tareas_df,          \* rows of sheet Tareas
    epicas_df,          \* rows of sheet Epicas
    worklogs_df,        \* rows of the worklogs DataFrame (line 302)
    issues_for_worklogs,\* the issue records (line 305)
    issues_df,          \* line 309: its columns and its rows
    filtered_worklogs_df, \* line 312
    cruzados_df,        \* line 316: matched
    no_cruzados_df,     \* line 316: unmatched
    attr_rerun,         \* whether assign_proyecto_economico was called once more
    \* ---- issue resolution (retrieve_issues_for_worklogs)
    res_pc,             \* "start" | "search" | "returned" | "raised" | "idle"
    res_worklogs,       \* the worklogs argument
    res_issues,         \* the list returned
    \* ---- two iterations of the offset paginator, advanced in turns
    pair_total,         \* number of records the server holds
    pair_caps,          \* the page sizes the server applies at most
    pair_given,         \* the parameters argument of the two calls
    pair_shared,        \* whether both calls were handed the same dict object
    pair_objects,       \* the dict objects, by identity
    pair_iter           \* the two generators: locals, requests sent, records yielded

env_vars == <<srv_fault>>

off_vars == <<srv_total, parameters, results_per_page, count_next,
              response_json, off_pc, off_yielded, off_log>>

cur_vars == <<srv_pages, url, is_last_page, cur_yielded, cur_requests,
              cur_error>>

sync_vars == <<sync_pc, worklog_ids, ids_in_groups_per_page, next_group,
               worklogs_by_id, bulk_requests, bulk_responses, bulk_statuses,
               all_worklogs, start_date, end_date, filtered_worklogs>>

attr_vars == <<attr_pc, recursos_df, tareas_df, epicas_df, worklogs_df,
               issues_for_worklogs, issues_df, filtered_worklogs_df,
               cruzados_df, no_cruzados_df, attr_rerun>>

res_vars == <<res_pc, res_worklogs, res_issues>>

pair_vars == <<pair_total, pair_caps, pair_given, pair_shared, pair_objects,
               pair_iter>>

\* the components no step of the four above touches
rest_vars == <<res_vars, pair_vars>>

vars == <<env_vars, off_vars, cur_vars, sync_vars, attr_vars, rest_vars>>

--------------------------------------------------------------------------
(* Generic helpers: dict access with a default, as dict.get(key, default). *)

Get(d, key, default) == IF key \in DOMAIN d THEN d[key] ELSE default

Min(a, b) == IF a <= b THEN a ELSE b

\* a dict without one of its keys
\* the least member of a non-empty set of numbers
Least(S) == CHOOSE x \in S : \A y \in S : x <= y

Without(d, key) == [k \in DOMAIN d \ {key} |-> d[k]]

\* no HTTP status taken for a failure
RaisesForStatus_Never(status) == FALSE

\* response.raise_for_status() (lines 69, 92, 121): requests raises
\* HTTPError for a status code from 400 to 599
RaisesForStatus(status) == 400 <= status /\ status < 600

\* the status codes of the failures a server may answer with
FailureStatuses == {400, 500}

\* the body of a failure: Jira's error document
ErrorBody == [errorMessages |-> <<"error">>]

\* A server with no fault left to show answers every request well.
EnvIdle == srv_fault = "none"

\* A list of consecutive server records lo, lo+1, ..., hi-1 is kept as the
\* range [lo, hi); the empty list is any range with lo = hi.
Range(lo, hi) == [lo |-> lo, hi |-> hi]
EmptyList == Range(0, 0)
RangeLen(r) == r.hi - r.lo

--------------------------------------------------------------------------
(* Offset paginator: _get_paginated_results, lines 51-83.                  *)

\* results_per_page = 1000 (line 60)
DefaultResultsPerPage == 1000

\* the results_key search_issues passes (line 138)
results_key == "issues"

\* Bounds of the server model.
TotalStep == 250
MaxTotalSteps == 9
MaxRequests == 30

Totals == {k * TotalStep : k \in 0..MaxTotalSteps} \cup {1}

\* Page sizes a server may report; it never reports more than was asked.
ServerSizes == {0, 100, 250, 1000}

\* The request parameters a caller hands over: None, or the dict that
\* search_issues builds (lines 131-133).
CallerParameters == {<<>>, [jql |-> "id in (1)"]}

\* The server's answer to a request: the records from startAt on, at most
\* `size` of them, the page size it applied and the total it holds.
ServerPage(startAt, size, total) ==
    IF startAt >= total THEN EmptyList
    ELSE Range(startAt, Min(startAt + size, total))

ServerResponse(req, size, total) ==
    (results_key :> ServerPage(req["startAt"], size, total))
        @@ [maxResults |-> size, total |-> total]

\* line 59: parameters = parameters or {};  line 61: parameters["maxResults"]
InitialParameters(given) == ("maxResults" :> DefaultResultsPerPage) @@ given

\* the page size never adopted
AdoptedPageSize_Ignored(resp, rpp) == rpp

\* lines 73-75: adopt the server's page size when it is smaller
AdoptedPageSize(resp, rpp) ==
    IF Get(resp, "maxResults", rpp) < rpp
    THEN Get(resp, "maxResults", rpp)
    ELSE rpp

\* line 81: count_next += results_per_page
NextOffset(cn, rpp) == cn + rpp

\* the end test with > in place of >=
Finished_Strict(cn, resp) == cn > Get(resp, "total", 0)

\* line 82: if count_next >= response_json.get("total", 0): return
Finished(cn, resp) == cn >= Get(resp, "total", 0)

OffsetIdle ==
    /\ srv_total = 0
    /\ parameters = <<>>
    /\ results_per_page = 0
    /\ count_next = 0
    /\ response_json = <<>>
    /\ off_pc = "idle"
    /\ off_yielded = <<>>
    /\ off_log = <<>>

OffsetStartState ==
    /\ srv_total \in Totals
    /\ parameters \in CallerParameters
    /\ results_per_page = 0
    /\ count_next = 0
    /\ response_json = <<>>
    /\ off_pc = "start"
    /\ off_yielded = <<>>
    /\ off_log = <<>>

\* lines 59-62: the generator's prologue
OffsetStart ==
    /\ off_pc = "start"
    /\ parameters' = InitialParameters(parameters)
    /\ results_per_page' = DefaultResultsPerPage
    /\ count_next' = 0
    /\ off_pc' = "request"
    /\ UNCHANGED <<srv_total, response_json, off_yielded, off_log>>
    /\ UNCHANGED <<cur_vars, sync_vars, attr_vars, env_vars, rest_vars>>

\* What the server may answer to a request. A well-behaved answer holds the
\* records from startAt on, the page size applied (never more than asked)
\* and the total. A server with a fault to show may also answer with a
\* failure status, leave out one field, or report a larger page size than
\* was asked; such a server never applies page size 0.
OffsetFaults ==
    {"status", "no_total", "no_maxResults", "no_results", "oversize"}

OffsetAnswers(sent, total, fault) ==
    LET sizes == {s \in ServerSizes :
                     s <= sent["maxResults"] /\ (fault = "none" \/ s > 0)}
        good == {[status |-> 200, size |-> s, faulty |-> FALSE,
                  body |-> ServerResponse(sent, s, total)] : s \in sizes}
        over == 2 * sent["maxResults"]
        bad == CASE fault = "status" ->
                      {[status |-> c, size |-> 0, faulty |-> TRUE,
                        body |-> ErrorBody] : c \in FailureStatuses}
                 [] fault = "no_total" ->
                      {[g EXCEPT !.body = Without(g.body, "total"),
                                 !.faulty = TRUE] : g \in good}
                 [] fault = "no_maxResults" ->
                      {[g EXCEPT !.body = Without(g.body, "maxResults"),
                                 !.faulty = TRUE] : g \in good}
                 [] fault = "no_results" ->
                      {[g EXCEPT !.body = Without(g.body, results_key),
                                 !.faulty = TRUE] : g \in good}
                 [] fault = "oversize" ->
                      {[status |-> 200, size |-> over, faulty |-> TRUE,
                        body |-> ServerResponse(sent, over, total)]}
                 [] OTHER -> {}
    IN good \cup bad

\* lines 64-76: set startAt, send the request, check the status, parse the
\* response, adopt the server's page size. The log keeps the first
\* MaxRequests exchanges.
OffsetRequest ==
    /\ off_pc = "request"
    /\ LET sent == ("startAt" :> count_next) @@ parameters IN
       \E ans \in OffsetAnswers(sent, srv_total, srv_fault) :
          /\ srv_fault' = IF ans.faulty THEN "spent" ELSE srv_fault
          /\ off_log' = IF Len(off_log) < MaxRequests
                        THEN Append(off_log,
                               [startAt |-> sent["startAt"],
                                maxResults |-> sent["maxResults"],
                                status |-> ans.status,
                                reported |-> ans.size,
                                results |->
                                    Get(ans.body, results_key, EmptyList),
                                body |-> ans.body])
                        ELSE off_log
          /\ IF RaisesForStatus(ans.status)
             THEN /\ parameters' = sent
                  /\ off_pc' = "raised"
                  /\ UNCHANGED <<response_json, results_per_page>>
             ELSE LET resp == ans.body
                      rpp  == AdoptedPageSize(resp, results_per_page) IN
                  /\ response_json' = resp
                  /\ results_per_page' = rpp
                  /\ parameters' = IF rpp # results_per_page
                                   THEN ("maxResults" :> rpp) @@ sent
                                   ELSE sent
                  /\ off_pc' = "yield"
    /\ UNCHANGED <<srv_total, count_next, off_yielded>>
    /\ UNCHANGED <<cur_vars, sync_vars, attr_vars, rest_vars>>

\* lines 78-83: yield the page's records, advance the offset, test the end
OffsetYield ==
    /\ off_pc = "yield"
    /\ off_yielded' = IF Len(off_yielded) < MaxRequests
                      THEN Append(off_yielded,
                                  Get(response_json, results_key, EmptyList))
                      ELSE off_yielded
    /\ count_next' = NextOffset(count_next, results_per_page)
    /\ off_pc' = IF Finished(count_next', response_json)
                 THEN "done" ELSE "request"
    /\ UNCHANGED <<srv_total, parameters, results_per_page, response_json,
                   off_log>>
    /\ UNCHANGED <<cur_vars, sync_vars, attr_vars, env_vars, rest_vars>>

--------------------------------------------------------------------------
(* Cursor paginator: _get_paginated_results_with_next_page_link,           *)
(* lines 85-99.                                                            *)

MaxPages == 3

\* An item of the "updated worklog ids" endpoint (line 108 reads worklogId).
Entry(k) == [worklogId |-> k]

PageValueChoices ==
    {<<>>, <<Entry(1)>>, <<Entry(1), Entry(2)>>, <<Entry(2), Entry(2)>>}

\* A chain of n pages: page i is found at URL i and names URL i+1 as its
\* nextPage; the page that ends the chain carries lastPage = true and no
\* nextPage. An earlier page may carry lastPage = true as well.
CursorChain(vals, flags) ==
    [i \in 1..Len(vals) |->
        IF i < Len(vals)
        THEN [values |-> vals[i], lastPage |-> flags[i], nextPage |-> i + 1]
        ELSE [values |-> vals[i], lastPage |-> TRUE]]

CursorChains ==
    UNION {{CursorChain(vals, flags) :
                vals \in [1..n -> PageValueChoices],
                flags \in {f \in [1..n -> BOOLEAN] : f[n]}} :
           n \in 1..MaxPages}

\* the URL the caller starts from
StartUrl == 1

\* a missing `values` taken for one item
PageValues_DefaultItem(resp) == Get(resp, "values", <<Entry(0)>>)

\* line 94: response_json.get("values", [])
PageValues(resp) == Get(resp, "values", <<>>)

\* every page taken for the last one
IsLastPage_Always(resp) == TRUE

\* a page without lastPage taken for one that is not the last
IsLastPage_DefaultFalse(resp) == Get(resp, "lastPage", FALSE)

\* line 97: is_last_page = response_json.get("lastPage", True)
IsLastPage(resp) == Get(resp, "lastPage", TRUE)

\* lines 98-99: if not is_last_page: url = response_json["nextPage"]
NextUrl(resp, current, last) == IF last THEN current ELSE resp["nextPage"]

\* line 89 and the state before the first pass of the loop
CursorStartLocals ==
    /\ url = StartUrl
    /\ is_last_page = FALSE
    /\ cur_yielded = <<>>
    /\ cur_requests = <<>>
    /\ cur_error = "none"

CursorStartState == srv_pages \in CursorChains /\ CursorStartLocals

\* The faulty versions of a page: a failure in its place, or the page
\* without one of its fields.
FaultyPages(page) ==
    {("status" :> c) @@ ErrorBody : c \in FailureStatuses}
        \cup {Without(page, f) :
                 f \in {"values", "lastPage", "nextPage"} \cap DOMAIN page}

\* the chains with one faulty page
FaultyChains(chains) ==
    UNION {UNION {{[ch EXCEPT ![i] = fp] : fp \in FaultyPages(ch[i])} :
                     i \in DOMAIN ch} : ch \in chains}

CursorIdle ==
    /\ srv_pages = <<>>
    /\ url = StartUrl
    /\ is_last_page = TRUE
    /\ cur_yielded = <<>>
    /\ cur_requests = <<>>
    /\ cur_error = "none"

\* the status of a page: 200 unless the page says otherwise
PageStatus(resp) == Get(resp, "status", 200)

\* lines 92-95: what one response hands to the consumer
CursorYields(resp) ==
    IF RaisesForStatus(PageStatus(resp)) THEN <<>> ELSE PageValues(resp)

\* lines 90-93 and 97-99: one pass of the loop, apart from the yields.
\* `consumed` tells whether the consumer took every item of the page; when
\* it raised on one, the generator is left suspended at its yield.
CursorAdvance(consumed) ==
    /\ ~is_last_page
    /\ cur_error = "none"
    /\ cur_requests' = Append(cur_requests, url)
    /\ LET resp == srv_pages[url] IN
       IF RaisesForStatus(PageStatus(resp))
       THEN /\ cur_error' = "HTTPError"
            /\ UNCHANGED <<is_last_page, url>>
       ELSE IF ~consumed
       THEN UNCHANGED <<is_last_page, url, cur_error>>
       ELSE LET last == IsLastPage(resp) IN
            /\ is_last_page' = last
            /\ IF ~last /\ "nextPage" \notin DOMAIN resp
               THEN cur_error' = "KeyError" /\ UNCHANGED url
               ELSE url' = NextUrl(resp, url, last) /\ UNCHANGED cur_error
    /\ UNCHANGED srv_pages

\* one pass of the loop with a consumer that keeps what it is handed
CursorFetch ==
    /\ sync_pc = "idle"
    /\ CursorAdvance(TRUE)
    /\ cur_yielded' = cur_yielded \o CursorYields(srv_pages[url])
    /\ UNCHANGED <<off_vars, sync_vars, attr_vars, env_vars, rest_vars>>

--------------------------------------------------------------------------
(* Dates, times and the text of a worklog's `started` field.               *)

Chars(n) ==
    CASE n = 0 -> "0" [] n = 1 -> "1" [] n = 2 -> "2" [] n = 3 -> "3"
      [] n = 4 -> "4" [] n = 5 -> "5" [] n = 6 -> "6" [] n = 7 -> "7"
      [] n = 8 -> "8" [] n = 9 -> "9"

DigitValue(c) == CHOOSE n \in 0..9 : Chars(n) = c

TwoDigits(n) == <<Chars(n \div 10), Chars(n % 10)>>

FourDigits(n) == TwoDigits(n \div 100) \o TwoDigits(n % 100)

RECURSIVE Number(_)
Number(cs) ==
    IF cs = <<>> THEN 0
    ELSE 10 * Number(SubSeq(cs, 1, Len(cs) - 1)) + DigitValue(cs[Len(cs)])

\* a naive datetime, as datetime(y, mo, d, h, mi)
DateTime(y, mo, d, h, mi) == [y |-> y, mo |-> mo, d |-> d, h |-> h, mi |-> mi]

\* the order of datetime objects: by year, month, day, hour, minute
DateTimeLE(a, b) ==
    \/ a.y < b.y
    \/ a.y = b.y /\ a.mo < b.mo
    \/ a.y = b.y /\ a.mo = b.mo /\ a.d < b.d
    \/ a.y = b.y /\ a.mo = b.mo /\ a.d = b.d /\ a.h < b.h
    \/ a.y = b.y /\ a.mo = b.mo /\ a.d = b.d /\ a.h = b.h /\ a.mi <= b.mi

\* Jira's text of a timestamp, "2024-01-01T23:59:00.000-0300": the date and
\* the wall-clock time at the offset `tz`.
JiraStarted(y, mo, d, h, mi, tz) ==
    FourDigits(y) \o <<"-">> \o TwoDigits(mo) \o <<"-">> \o TwoDigits(d)
      \o <<"T">> \o TwoDigits(h) \o <<":">> \o TwoDigits(mi)
      \o <<":", "0", "0", ".", "0", "0", "0">> \o tz

\* a `started` that is a bare date, "2024-01-01"
BareDate(y, mo, d) ==
    FourDigits(y) \o <<"-">> \o TwoDigits(mo) \o <<"-">> \o TwoDigits(d)

\* line 168: worklog['started'][:10]
FirstTen(text) == SubSeq(text, 1, Min(10, Len(text)))

\* line 168: datetime.strptime(text, '%Y-%m-%d') of a text "YYYY-MM-DD"
Strptime(text) ==
    DateTime(Number(SubSeq(text, 1, 4)), Number(SubSeq(text, 6, 7)),
             Number(SubSeq(text, 9, 10)), 0, 0)

\* the end of the window excluded
InDateRange_EndExcluded(worklog, first, last) ==
    /\ DateTimeLE(first, Strptime(FirstTen(worklog["started"])))
    /\ DateTimeLE(Strptime(FirstTen(worklog["started"])), last)
    /\ Strptime(FirstTen(worklog["started"])) # last

\* line 168: start_date <= started's date <= end_date
InDateRange(worklog, first, last) ==
    /\ DateTimeLE(first, Strptime(FirstTen(worklog["started"])))
    /\ DateTimeLE(Strptime(FirstTen(worklog["started"])), last)

\* lines 166-169: the list comprehension
RECURSIVE FilterByDate(_, _, _)
FilterByDate(worklogs, first, last) ==
    IF worklogs = <<>> THEN <<>>
    ELSE (IF InDateRange(Head(worklogs), first, last)
          THEN <<Head(worklogs)>> ELSE <<>>)
         \o FilterByDate(Tail(worklogs), first, last)

--------------------------------------------------------------------------
(* Worklog sync: retrieve_worklogs_updated_since, lines 101-126, called by *)
(* retrieve_worklogs_in_date_range, lines 154-171.                         *)

\* worklogs_per_page = 1000 (line 110)
worklogs_per_page == 1000

MaxBulkResponse == 2

\* The "updated worklog ids" chains of the sync runs: the number of items
\* on each page, and how ids repeat among the items.
SyncShapes == {<<0>>, <<1>>, <<2, 1>>, <<1000>>, <<1000, 1>>, <<1, 1000>>}

IdPatterns == {"distinct", "repeating"}

IdAt(pattern, k) == IF pattern = "distinct" THEN k ELSE ((k - 1) % 2) + 1

RECURSIVE SumTo(_, _)
SumTo(shape, i) == IF i = 0 THEN 0 ELSE shape[i] + SumTo(shape, i - 1)

SyncChain(shape, pattern) ==
    CursorChain([i \in 1..Len(shape) |->
                    [k \in 1..shape[i] |->
                        Entry(IdAt(pattern, SumTo(shape, i - 1) + k))]],
                [i \in 1..Len(shape) |-> i = Len(shape)])

SyncChains == {SyncChain(sh, pt) : sh \in SyncShapes, pt \in IdPatterns}

\* `started` texts of the worklogs the bulk-fetch endpoint returns
SyncStarted ==
    {JiraStarted(2024, 1, 1, 23, 59, <<"-", "0", "3", "0", "0">>),
     JiraStarted(2024, 12, 31, 0, 0, <<"+", "0", "0", "0", "0">>)}

Worklog(id, started) == [id |-> id, started |-> started]

SyncWorklogs == {Worklog(id, st) : id \in {1, 2}, st \in SyncStarted}

\* what the bulk-fetch endpoint may answer: any short list of worklogs
BulkResponses ==
    UNION {[1..n -> SyncWorklogs] : n \in 0..MaxBulkResponse}

\* slices that run one id into the next slice
IdsInGroups_Overlap(ids, per) ==
    [g \in 1..((Len(ids) + per - 1) \div per) |->
        SubSeq(ids, (g - 1) * per + 1, Min(g * per + 1, Len(ids)))]

\* lines 111-114: consecutive slices of worklogs_per_page ids
IdsInGroups(ids, per) ==
    [g \in 1..((Len(ids) + per - 1) \div per) |->
        SubSeq(ids, (g - 1) * per + 1, Min(g * per, Len(ids)))]

\* the first record of an id kept, as dict.setdefault
DictSet_KeepFirst(dict, key, value) ==
    IF \E i \in 1..Len(dict) : dict[i][1] = key
    THEN dict
    ELSE Append(dict, <<key, value>>)

\* line 124: worklogs_by_id[worklog["id"]] = worklog
DictSet(dict, key, value) ==
    IF \E i \in 1..Len(dict) : dict[i][1] = key
    THEN [i \in 1..Len(dict) |->
             IF dict[i][1] = key THEN <<key, value>> ELSE dict[i]]
    ELSE Append(dict, <<key, value>>)

\* lines 123-124: the inner for loop
RECURSIVE InsertAll(_, _)
InsertAll(dict, worklogs) ==
    IF worklogs = <<>> THEN dict
    ELSE InsertAll(DictSet(dict, Head(worklogs)["id"], Head(worklogs)),
                   Tail(worklogs))

\* line 126: list(worklogs_by_id.values())
DictValues(dict) == [i \in 1..Len(dict) |-> dict[i][2]]

\* the driver's window (lines 295-296)
DriverStart == DateTime(2024, 1, 1, 0, 0)
DriverEnd == DateTime(2024, 12, 30, 0, 0)

SyncIdle ==
    /\ sync_pc = "idle"
    /\ worklog_ids = <<>>
    /\ ids_in_groups_per_page = <<>>
    /\ next_group = 0
    /\ worklogs_by_id = <<>>
    /\ bulk_requests = <<>>
    /\ bulk_responses = <<>>
    /\ bulk_statuses = <<>>
    /\ all_worklogs = <<>>
    /\ start_date = DriverStart
    /\ end_date = DriverEnd
    /\ filtered_worklogs = <<>>

\* lines 103-105 and the start of the loop of line 107
SyncStartLocals ==
    /\ url = StartUrl
    /\ is_last_page = FALSE
    /\ cur_yielded = <<>>
    /\ cur_requests = <<>>
    /\ cur_error = "none"
    /\ sync_pc = "collect"
    /\ worklog_ids = <<>>
    /\ ids_in_groups_per_page = <<>>
    /\ next_group = 0
    /\ worklogs_by_id = <<>>
    /\ bulk_requests = <<>>
    /\ bulk_responses = <<>>
    /\ bulk_statuses = <<>>
    /\ all_worklogs = <<>>
    /\ start_date = DriverStart
    /\ end_date = DriverEnd
    /\ filtered_worklogs = <<>>

SyncStartState == srv_pages \in SyncChains /\ SyncStartLocals

BulkFaults == {"status", "no_id"}

\* an item of the "updated worklog ids" endpoint without its worklogId
EntryWithoutId == [updatedTime |-> 0]

\* the versions of a page with one item without worklogId
BrokenEntries(page) ==
    {[page EXCEPT !.values = [page.values EXCEPT ![k] = EntryWithoutId]] :
        k \in 1..Len(page.values)}

\* Sync runs against a server with one fault to show: in a page of the
\* "updated worklog ids" chain, or in an answer of worklog/list.
FaultySyncChains ==
    LET ch == SyncChain(<<2, 1>>, "distinct") IN
    FaultyChains({ch})
        \cup UNION {{[ch EXCEPT ![i] = bp] : bp \in BrokenEntries(ch[i])} :
                       i \in DOMAIN ch}

FaultySyncStartState ==
    /\ \/ /\ srv_fault = "none"
          /\ srv_pages \in FaultySyncChains
       \/ /\ srv_fault \in BulkFaults
          /\ srv_pages \in {SyncChain(<<1>>, "distinct"),
                             SyncChain(<<1000, 1>>, "distinct")}
    /\ SyncStartLocals

\* lines 107-108: one page of the cursor paginator, each of its items'
\* worklogId appended. An item without worklogId raises KeyError at line
\* 108; an exception of the paginator passes through the for loop.
SyncCollect ==
    /\ sync_pc = "collect"
    /\ LET items == CursorYields(srv_pages[url])
           bad   == {k \in 1..Len(items) : "worklogId" \notin DOMAIN items[k]}
           taken == IF bad = {} THEN Len(items) ELSE Least(bad) - 1 IN
       /\ CursorAdvance(bad = {})
       /\ worklog_ids' = worklog_ids \o
              [k \in 1..taken |-> items[k]["worklogId"]]
       /\ sync_pc' = IF bad # {} \/ cur_error' # "none"
                     THEN "raised" ELSE sync_pc
    /\ UNCHANGED <<cur_yielded, ids_in_groups_per_page, next_group,
                   worklogs_by_id, bulk_requests, bulk_responses,
                   bulk_statuses, all_worklogs, start_date, end_date,
                   filtered_worklogs>>
    /\ UNCHANGED <<off_vars, attr_vars, env_vars, rest_vars>>

\* lines 110-115, once the paginator is exhausted
SyncGroup ==
    /\ sync_pc = "collect"
    /\ is_last_page
    /\ ids_in_groups_per_page' = IdsInGroups(worklog_ids, worklogs_per_page)
    /\ worklogs_by_id' = <<>>
    /\ next_group' = 1
    /\ sync_pc' = "fetch"
    /\ UNCHANGED <<worklog_ids, bulk_requests, bulk_responses, bulk_statuses, all_worklogs,
                   start_date, end_date, filtered_worklogs>>
    /\ UNCHANGED <<off_vars, cur_vars, attr_vars, env_vars, rest_vars>>

\* What worklog/list may answer: a list of worklogs or, from a server with
\* a fault to show, a failure status or a list with a worklog without id;
\* such a server answers with one worklog at most.
BulkAnswers(fault) ==
    LET lists == IF fault = "none" THEN BulkResponses
                 ELSE {w \in BulkResponses : Len(w) <= 1}
        good == {[status |-> 200, faulty |-> FALSE, list |-> TRUE,
                  body |-> w] : w \in lists}
        bad == CASE fault = "status" ->
                      {[status |-> c, faulty |-> TRUE, list |-> FALSE,
                        body |-> ErrorBody] : c \in FailureStatuses}
                 [] fault = "no_id" ->
                      UNION {{[status |-> 200, faulty |-> TRUE, list |-> TRUE,
                               body |-> [w EXCEPT ![j] = Without(w[j], "id")]] :
                                 j \in 1..Len(w)} : w \in lists}
                 [] OTHER -> {}
    IN good \cup bad

\* lines 117-124: one bulk-fetch request, the check of its status and the
\* merge of its response. A worklog without id raises KeyError at line
\* 124; so does, as TypeError, the iteration over an error document.
SyncBulkFetch ==
    /\ sync_pc = "fetch"
    /\ next_group <= Len(ids_in_groups_per_page)
    /\ \E ans \in BulkAnswers(srv_fault) :
          /\ srv_fault' = IF ans.faulty THEN "spent" ELSE srv_fault
          /\ bulk_requests' =
                Append(bulk_requests, ids_in_groups_per_page[next_group])
          /\ bulk_responses' = Append(bulk_responses, ans.body)
          /\ bulk_statuses' = Append(bulk_statuses, ans.status)
          /\ IF RaisesForStatus(ans.status) \/ ~ans.list
             THEN /\ sync_pc' = "raised"
                  /\ UNCHANGED <<worklogs_by_id, next_group>>
             ELSE LET worklogs == ans.body
                      bad == {k \in 1..Len(worklogs) :
                                 "id" \notin DOMAIN worklogs[k]}
                      taken == IF bad = {} THEN Len(worklogs)
                               ELSE Least(bad) - 1 IN
                  /\ worklogs_by_id' =
                        InsertAll(worklogs_by_id, SubSeq(worklogs, 1, taken))
                  /\ sync_pc' = IF bad = {} THEN sync_pc ELSE "raised"
                  /\ next_group' = IF bad = {} THEN next_group + 1
                                   ELSE next_group
    /\ UNCHANGED <<worklog_ids, ids_in_groups_per_page, all_worklogs,
                   start_date, end_date, filtered_worklogs>>
    /\ UNCHANGED <<off_vars, cur_vars, attr_vars, rest_vars>>

\* line 126, received at line 163
SyncReturn ==
    /\ sync_pc = "fetch"
    /\ next_group > Len(ids_in_groups_per_page)
    /\ all_worklogs' = DictValues(worklogs_by_id)
    /\ sync_pc' = "filter"
    /\ UNCHANGED <<worklog_ids, ids_in_groups_per_page, next_group,
                   worklogs_by_id, bulk_requests, bulk_responses, bulk_statuses,
                   start_date, end_date, filtered_worklogs>>
    /\ UNCHANGED <<off_vars, cur_vars, attr_vars, env_vars, rest_vars>>

\* lines 166-171
DateFilter ==
    /\ sync_pc = "filter"
    /\ filtered_worklogs' = FilterByDate(all_worklogs, start_date, end_date)
    /\ sync_pc' = "done"
    /\ UNCHANGED <<worklog_ids, ids_in_groups_per_page, next_group,
                   worklogs_by_id, bulk_requests, bulk_responses, bulk_statuses,
                   all_worklogs, start_date, end_date>>
    /\ UNCHANGED <<off_vars, cur_vars, attr_vars, env_vars, rest_vars>>

--------------------------------------------------------------------------
(* The date filter on its own: every window and every `started` text.      *)

MaxWorklogs == 2

Days == {<<2023, 12, 31>>, <<2024, 1, 1>>, <<2024, 1, 2>>,
         <<2024, 12, 30>>, <<2024, 12, 31>>}

Clock == {<<0, 0>>, <<23, 59>>}

Offsets == {<<"+", "0", "0", "0", "0">>, <<"-", "0", "3", "0", "0">>}

\* the first minute of the day at UTC, the last one at UTC-3, or no time
StartedTexts ==
    {JiraStarted(day[1], day[2], day[3], 0, 0, <<"+", "0", "0", "0", "0">>) :
        day \in Days}
    \cup {JiraStarted(day[1], day[2], day[3], 23, 59, <<"-", "0", "3", "0", "0">>) :
        day \in Days}
    \cup {BareDate(day[1], day[2], day[3]) : day \in Days}

Windows ==
    {DateTime(day[1], day[2], day[3], t[1], t[2]) :
        day \in {<<2024, 1, 1>>, <<2024, 12, 30>>}, t \in {<<0, 0>>, <<10, 30>>}}

\* all_worklogs as worklog sync returns it: one worklog per id
DateStartState ==
    /\ sync_pc = "filter"
    /\ \E n \in 1..MaxWorklogs :
          all_worklogs \in
             {[i \in 1..n |-> Worklog(i, sts[i])] : sts \in [1..n -> StartedTexts]}
    /\ start_date \in Windows
    /\ end_date \in Windows
    /\ worklog_ids = <<>>
    /\ ids_in_groups_per_page = <<>>
    /\ next_group = 1
    /\ worklogs_by_id = <<>>
    /\ bulk_requests = <<>>
    /\ bulk_responses = <<>>
    /\ bulk_statuses = <<>>
    /\ filtered_worklogs = <<>>

--------------------------------------------------------------------------
(* Attribution: issues_to_dataframe (lines 262-277),                       *)
(* filter_worklogs_by_recursos (lines 195-205), assign_proyecto_economico  *)
(* (lines 208-240), as the driver calls them (lines 309-319).              *)

\* a missing value of a DataFrame cell
NaN == "NaN"

\* the sub-sequences of a list: the elements at the positions in s, in order
RECURSIVE Pick(_, _, _)
Pick(list, s, i) ==
    IF i > Len(list) THEN <<>>
    ELSE (IF i \in s THEN <<list[i]>> ELSE <<>>) \o Pick(list, s, i + 1)

SubLists(list) == {Pick(list, s, 1) : s \in SUBSET (1..Len(list))}

\* Input tables. Keys may repeat and a key cell may be blank (read_excel
\* makes it NaN): the sheets are kept by hand.
TareasRows ==
    <<[KEY |-> "K1", Proyecto_Economico |-> "T1", N_Proyecto_Economico |-> "Uno"],
      [KEY |-> "K2", Proyecto_Economico |-> "T2", N_Proyecto_Economico |-> "Dos"],
      [KEY |-> "K1", Proyecto_Economico |-> "T3", N_Proyecto_Economico |-> "Tres"],
      [KEY |-> NaN, Proyecto_Economico |-> "T9", N_Proyecto_Economico |-> "Nueve"]>>

EpicasRows ==
    <<[Parent_Key |-> "E1", Proyecto_Economico |-> "P1"],
      [Parent_Key |-> "E1", Proyecto_Economico |-> "P2"],
      [Parent_Key |-> NaN, Proyecto_Economico |-> "P9"]>>

RecursosColumns == {<<>>, <<"ana", NaN, "ana">>}

\* Issue records as the search returns them, one per id; the second has
\* no parent.
IssueRecords ==
    <<[id |-> "10", key |-> "K1", parent |-> "E1"],
      [id |-> "11", key |-> "K2"]>>

WorklogRows(n) ==
    {[i \in 1..n |-> [id |-> i, issueId |-> is[i], author_displayName |-> au[i]]] :
        is \in [1..n -> {"10", "11"}], au \in [1..n -> {"ana", "bob"}]}

\* lines 269-277: json_normalize and rename; a column exists when at least
\* one record carries the field, and a record without it holds NaN there
IssuesToDataframe(issues) ==
    LET cols == UNION {DOMAIN issues[i] : i \in 1..Len(issues)} IN
    [columns |-> cols,
     rows |-> [i \in 1..Len(issues) |->
                  [c \in cols |-> Get(issues[i], c, NaN)]]]

\* line 203: recursos_df['Recurso'].dropna().unique().tolist()
RecursosList(recursos) == {recursos[i] : i \in 1..Len(recursos)} \ {NaN}

\* no worklog dropped
FilterByRecursos_All(worklogs, recursos) == worklogs

\* line 204: worklogs_df[worklogs_df['author_displayName'].isin(recursos_list)]
FilterByRecursos(worklogs, recursos) ==
    SelectSeq(worklogs,
              LAMBDA w : w["author_displayName"] \in RecursosList(recursos))

\* lines 219-220: the columns id, key, parent, renamed
IssuesFiltered(df) ==
    [i \in 1..Len(df.rows) |->
        [issue_Id |-> df.rows[i]["id"],
         issue_key |-> df.rows[i]["key"],
         parent_key |-> df.rows[i]["parent"]]]

\* DataFrame.merge(how='left'): every left row once per right row with an
\* equal key, in the order of the right rows, and once with NaN in the
\* right columns when there is none. NaN keys match each other.
RECURSIVE LeftMerge(_, _, _, _, _)
LeftMerge(left, right, left_on, right_on, missing) ==
    IF left = <<>> THEN <<>>
    ELSE LET l == Head(left)
             hits == SelectSeq(right, LAMBDA r : r[right_on] = l[left_on])
         IN  (IF hits = <<>> THEN <<l @@ missing>>
              ELSE [k \in 1..Len(hits) |-> l @@ hits[k]])
             \o LeftMerge(Tail(left), right, left_on, right_on, missing)

IssueMissing == [issue_Id |-> NaN, issue_key |-> NaN, parent_key |-> NaN]

TareasMissing ==
    [KEY |-> NaN, Proyecto_Economico |-> NaN, N_Proyecto_Economico |-> NaN]

\* line 227: rename Proyecto_Economico to Proyecto_Economico_Tareas
RenameTareas(row) ==
    [c \in (DOMAIN row \ {"Proyecto_Economico"})
             \cup {"Proyecto_Economico_Tareas"} |->
        IF c = "Proyecto_Economico_Tareas"
        THEN row["Proyecto_Economico"] ELSE row[c]]

\* line 230: set_index('Parent_Key')['Proyecto_Economico'].to_dict(); of
\* several rows with one key the last one stays
EpicasMapping(epicas) ==
    [k \in {epicas[i]["Parent_Key"] : i \in 1..Len(epicas)} |->
        epicas[CHOOSE i \in 1..Len(epicas) :
                  /\ epicas[i]["Parent_Key"] = k
                  /\ \A j \in (i+1)..Len(epicas) : epicas[j]["Parent_Key"] # k]
              ["Proyecto_Economico"]]

\* the epic mapping looked up by the issue key
EpicLevel_ByIssueKey(row, mapping) == Get(mapping, row["issue_key"], NaN)

\* line 231: merged_df['parent_key'].map(epicas_mapping), for one row
EpicLevel(row, mapping) == Get(mapping, row["parent_key"], NaN)

\* the epic-level id taken first
CombineFirst_EpicFirst(first, other) == IF other # NaN THEN other ELSE first

\* line 234: Series.combine_first, for one row
CombineFirst(first, other) == IF first # NaN THEN first ELSE other

\* lines 223-234 for the whole frame
MergedRows(worklogs, df, tareas, epicas) ==
    LET with_issue == LeftMerge(worklogs, IssuesFiltered(df),
                                "issueId", "issue_Id", IssueMissing)
        with_task  == LeftMerge(with_issue, tareas,
                                "issue_key", "KEY", TareasMissing)
        mapping    == EpicasMapping(epicas)
    IN  [i \in 1..Len(with_task) |->
           LET row  == RenameTareas(with_task[i])
               epic == EpicLevel(row, mapping)
           IN  row @@ [Proyecto_Economico_Epicas |-> epic,
                       Proyecto_Economico |->
                          CombineFirst(row["Proyecto_Economico_Tareas"], epic)]]

\* line 237
Cruzados(merged) ==
    SelectSeq(merged, LAMBDA r : r["Proyecto_Economico"] # NaN)

\* line 238
NoCruzados(merged) ==
    SelectSeq(merged, LAMBDA r : r["Proyecto_Economico"] = NaN)

AttrIdle ==
    /\ attr_pc = "idle"
    /\ recursos_df = <<>>
    /\ tareas_df = <<>>
    /\ epicas_df = <<>>
    /\ worklogs_df = <<>>
    /\ issues_for_worklogs = <<>>
    /\ issues_df = [columns |-> {}, rows |-> <<>>]
    /\ filtered_worklogs_df = <<>>
    /\ cruzados_df = <<>>
    /\ no_cruzados_df = <<>>
    /\ attr_rerun = FALSE

\* the driver after line 305, the sheets loaded (lines 22-25)
AttrStartState ==
    /\ attr_pc = "frame"
    /\ recursos_df \in RecursosColumns
    /\ tareas_df \in SubLists(TareasRows)
    /\ epicas_df \in SubLists(EpicasRows)
    /\ \E n \in 1..MaxWorklogs : worklogs_df \in WorklogRows(n)
    /\ issues_for_worklogs \in SubLists(IssueRecords)
    /\ issues_df = [columns |-> {}, rows |-> <<>>]
    /\ filtered_worklogs_df = <<>>
    /\ cruzados_df = <<>>
    /\ no_cruzados_df = <<>>
    /\ attr_rerun = FALSE

\* line 309
IssuesFrame ==
    /\ attr_pc = "frame"
    /\ issues_df' = IssuesToDataframe(issues_for_worklogs)
    /\ attr_pc' = "filter"
    /\ UNCHANGED <<recursos_df, tareas_df, epicas_df, worklogs_df,
                   issues_for_worklogs, filtered_worklogs_df, cruzados_df,
                   no_cruzados_df, attr_rerun>>
    /\ UNCHANGED <<off_vars, cur_vars, sync_vars, env_vars, rest_vars>>

\* line 312
FilterRecursos ==
    /\ attr_pc = "filter"
    /\ filtered_worklogs_df' = FilterByRecursos(worklogs_df, recursos_df)
    /\ attr_pc' = "assign"
    /\ UNCHANGED <<recursos_df, tareas_df, epicas_df, worklogs_df,
                   issues_for_worklogs, issues_df, cruzados_df,
                   no_cruzados_df, attr_rerun>>
    /\ UNCHANGED <<off_vars, cur_vars, sync_vars, env_vars, rest_vars>>

\* the call with line 227's rename done in place on self.tareas_df
AssignProyectoEconomico_InPlace ==
    /\ attr_pc = "assign" \/ (attr_pc = "done" /\ ~attr_rerun)
    /\ attr_rerun' = (attr_pc = "done")
    /\ IF {"id", "key", "parent"} \subseteq issues_df.columns
       THEN LET merged == MergedRows(filtered_worklogs_df, issues_df,
                                     tareas_df, epicas_df) IN
            /\ cruzados_df' = Cruzados(merged)
            /\ no_cruzados_df' = NoCruzados(merged)
            /\ attr_pc' = "done"
       ELSE /\ attr_pc' = "error"
            /\ UNCHANGED <<cruzados_df, no_cruzados_df>>
    /\ tareas_df' = [i \in 1..Len(tareas_df) |-> RenameTareas(tareas_df[i])]
    /\ UNCHANGED <<recursos_df, epicas_df, worklogs_df,
                   issues_for_worklogs, issues_df, filtered_worklogs_df>>
    /\ UNCHANGED <<off_vars, cur_vars, sync_vars, env_vars, rest_vars>>

\* lines 316-319, and once more with the same arguments after it returned;
\* line 219 raises KeyError when issues_df lacks a column
AssignProyectoEconomico ==
    /\ attr_pc = "assign" \/ (attr_pc = "done" /\ ~attr_rerun)
    /\ attr_rerun' = (attr_pc = "done")
    /\ IF {"id", "key", "parent"} \subseteq issues_df.columns
       THEN LET merged == MergedRows(filtered_worklogs_df, issues_df,
                                     tareas_df, epicas_df) IN
            /\ cruzados_df' = Cruzados(merged)
            /\ no_cruzados_df' = NoCruzados(merged)
            /\ attr_pc' = "done"
       ELSE /\ attr_pc' = "error"
            /\ UNCHANGED <<cruzados_df, no_cruzados_df>>
    /\ UNCHANGED <<recursos_df, tareas_df, epicas_df, worklogs_df,
                   issues_for_worklogs, issues_df, filtered_worklogs_df>>
    /\ UNCHANGED <<off_vars, cur_vars, sync_vars, env_vars, rest_vars>>

--------------------------------------------------------------------------
(* Issue resolution: retrieve_issues_for_worklogs (lines 146-152) and      *)
(* search_issues (lines 128-144).                                          *)

\* the orders in which a Python set may be iterated
Orders(S) ==
    {o \in [1..Cardinality(S) -> S] :
        \A i, j \in 1..Cardinality(S) : o[i] = o[j] => i = j}

\* ','.join(...) as a list of pieces
RECURSIVE Join(_, _)
Join(items, sep) ==
    IF items = <<>> THEN <<>>
    ELSE IF Len(items) = 1 THEN items
    ELSE <<Head(items), sep>> \o Join(Tail(items), sep)

\* line 151: f"id in ({','.join(str(issue_id) for issue_id in issue_ids)})"
Jql(ids) == <<"id in (">> \o Join(ids, ",") \o <<")">>

\* line 305: the fields the driver asks for
DriverFields == <<"key", "project", "summary", "parent">>

\* lines 131-133
SearchParameters(jql, fields) ==
    IF fields # <<>> THEN [jql |-> jql, fields |-> fields] ELSE [jql |-> jql]

\* the worklogs handed over: none, or a few with their issueId
ResolveWorklogs ==
    UNION {[1..n -> {[issueId |-> "10"], [issueId |-> "11"]}] :
              n \in 0..MaxWorklogs}

ResolveIdle ==
    /\ res_pc = "idle"
    /\ res_worklogs = <<>>
    /\ res_issues = <<>>

\* The call; the server holds at most one issue for each id asked for.
ResolveStartState ==
    /\ res_pc = "start"
    /\ res_worklogs \in ResolveWorklogs
    /\ res_issues = <<>>
    /\ srv_total \in 0..Cardinality({res_worklogs[i]["issueId"] :
                                        i \in 1..Len(res_worklogs)})
    /\ parameters = <<>>
    /\ results_per_page = 0
    /\ count_next = 0
    /\ response_json = <<>>
    /\ off_pc = "idle"
    /\ off_yielded = <<>>
    /\ off_log = <<>>

\* lines 150-151 and 130-141: the id set, the query text, the parameters,
\* and the call of the offset paginator
ResolveQuery ==
    /\ res_pc = "start"
    /\ LET issue_ids == {res_worklogs[i]["issueId"] :
                            i \in 1..Len(res_worklogs)} IN
       \E order \in Orders(issue_ids) :
          parameters' = SearchParameters(Jql(order), DriverFields)
    /\ off_pc' = "start"
    /\ res_pc' = "search"
    /\ UNCHANGED <<srv_total, results_per_page, count_next, response_json,
                   off_yielded, off_log>>
    /\ UNCHANGED <<res_worklogs, res_issues>>
    /\ UNCHANGED <<cur_vars, sync_vars, attr_vars, env_vars, pair_vars>>

\* lines 136-144 and 152: the issues collected are returned, or the
\* paginator's exception passes through
ResolveEnd ==
    /\ res_pc = "search"
    /\ off_pc \in {"done", "raised"}
    /\ IF off_pc = "done"
       THEN res_issues' = off_yielded /\ res_pc' = "returned"
       ELSE res_pc' = "raised" /\ UNCHANGED res_issues
    /\ UNCHANGED res_worklogs
    /\ UNCHANGED <<off_vars, cur_vars, sync_vars, attr_vars, env_vars,
                   pair_vars>>

--------------------------------------------------------------------------
(* Two iterations of the offset paginator (lines 51-83) advanced in turns. *)
(* A generator runs from one yield to the next without interruption, so a  *)
(* step is: the prologue or the bookkeeping after a page's yields, then    *)
(* the loop up to the first record of the next page that has one, or up to *)
(* the return.                                                             *)

\* The server answers a request as a function of the request alone: it
\* applies the page size asked for, capped by one limit for the first page
\* and one for the later pages.
PairCaps == [first : {100, 250, 1000}, later : {100, 250, 1000}]

PairTotals == {t \in Totals : t <= 2 * TotalStep}

PairServerSize(caps, req) ==
    Min(req["maxResults"],
        IF req["startAt"] = 0 THEN caps.first ELSE caps.later)

\* The dict objects: 1 and 2 are the callers' arguments, 2 + i is the new
\* dict iteration i makes when its argument is None or empty (line 59).
InitialObjects(given) ==
    [o \in 1..4 |-> IF o \in {1, 2} THEN given ELSE <<>>]

NewIteration(arg, fresh) ==
    [pc |-> "new", arg |-> arg, fresh |-> fresh, ref |-> 0,
     results_per_page |-> 0, count_next |-> 0, response_json |-> <<>>,
     log |-> <<>>, yielded |-> <<>>]

\* lines 59-62
PairPrologue(it, objs) ==
    LET ref == IF objs[it.arg] = <<>> THEN it.fresh ELSE it.arg IN
    [it |-> [it EXCEPT !.ref = ref,
                       !.results_per_page = DefaultResultsPerPage,
                       !.count_next = 0],
     objs |-> [objs EXCEPT ![ref] = InitialParameters(objs[ref])]]

RECURSIVE PairLoop(_, _, _, _)
RECURSIVE PairAfterYield(_, _, _, _)

\* lines 64-79: one request, the adoption of the page size, and the yield
\* of the page's records when it has any
PairLoop(it, objs, total, caps) ==
    LET sent == ("startAt" :> it.count_next) @@ objs[it.ref]
        resp == ServerResponse(sent, PairServerSize(caps, sent), total)
        rpp  == AdoptedPageSize(resp, it.results_per_page)
        objs2 == [objs EXCEPT ![it.ref] =
                     IF rpp # it.results_per_page
                     THEN ("maxResults" :> rpp) @@ sent
                     ELSE sent]
        it2 == [it EXCEPT !.results_per_page = rpp,
                          !.response_json = resp,
                          !.log = Append(@, [startAt |-> sent["startAt"],
                                             maxResults |-> sent["maxResults"]])]
    IN IF RangeLen(Get(resp, results_key, EmptyList)) > 0
       THEN [it |-> [it2 EXCEPT !.pc = "suspended",
                                !.yielded = Append(@, resp[results_key])],
             objs |-> objs2]
       ELSE PairAfterYield(it2, objs2, total, caps)

\* lines 81-83, and the next pass of the loop
PairAfterYield(it, objs, total, caps) ==
    LET cn == NextOffset(it.count_next, it.results_per_page)
        it2 == [it EXCEPT !.count_next = cn]
    IN IF Finished(cn, it.response_json)
       THEN [it |-> [it2 EXCEPT !.pc = "done"], objs |-> objs]
       ELSE PairLoop(it2, objs, total, caps)

\* next(generator)
PairResume(it, objs, total, caps) ==
    IF it.pc = "new"
    THEN LET p == PairPrologue(it, objs) IN PairLoop(p.it, p.objs, total, caps)
    ELSE PairAfterYield(it, objs, total, caps)

PairIdle ==
    /\ pair_total = 0
    /\ pair_caps = <<>>
    /\ pair_given = <<>>
    /\ pair_shared = FALSE
    /\ pair_objects = <<>>
    /\ pair_iter = <<>>

\* two calls of _get_paginated_results, with the same dict or with one each
PairStartState ==
    /\ pair_total \in PairTotals
    /\ pair_caps \in PairCaps
    /\ pair_given \in CallerParameters
    /\ pair_shared \in BOOLEAN
    /\ pair_objects = InitialObjects(pair_given)
    /\ pair_iter = [i \in 1..2 |->
                       NewIteration(IF pair_shared THEN 1 ELSE i, 2 + i)]

\* the first next() of an iteration
PairFirst ==
    /\ \E i \in DOMAIN pair_iter :
          /\ pair_iter[i].pc = "new"
          /\ LET r == PairResume(pair_iter[i], pair_objects,
                                 pair_total, pair_caps) IN
             /\ pair_iter' = [pair_iter EXCEPT ![i] = r.it]
             /\ pair_objects' = r.objs
    /\ UNCHANGED <<pair_total, pair_caps, pair_given, pair_shared>>
    /\ UNCHANGED <<env_vars, off_vars, cur_vars, sync_vars, attr_vars,
                   res_vars>>

\* a later next() of an iteration
PairAdvance ==
    /\ \E i \in DOMAIN pair_iter :
          /\ pair_iter[i].pc = "suspended"
          /\ LET r == PairResume(pair_iter[i], pair_objects,
                                 pair_total, pair_caps) IN
             /\ pair_iter' = [pair_iter EXCEPT ![i] = r.it]
             /\ pair_objects' = r.objs
    /\ UNCHANGED <<pair_total, pair_caps, pair_given, pair_shared>>
    /\ UNCHANGED <<env_vars, off_vars, cur_vars, sync_vars, attr_vars,
                   res_vars>>

--------------------------------------------------------------------------
(* Specifications: one per component.                                      *)

OffsetInit == EnvIdle /\ ResolveIdle /\ PairIdle /\ OffsetStartState /\ CursorIdle /\ SyncIdle /\ AttrIdle

OffsetNext == OffsetStart \/ OffsetRequest \/ OffsetYield

OffsetSpec == OffsetInit /\ [][OffsetNext]_vars

\* search_issues drives the generator to exhaustion (lines 136-142)
FairOffsetSpec == OffsetSpec /\ WF_vars(OffsetNext)

CursorInit == EnvIdle /\ ResolveIdle /\ PairIdle /\ OffsetIdle /\ CursorStartState /\ SyncIdle /\ AttrIdle

CursorNext == CursorFetch

CursorSpec == CursorInit /\ [][CursorNext]_vars

SyncInit == EnvIdle /\ ResolveIdle /\ PairIdle /\ OffsetIdle /\ SyncStartState /\ AttrIdle

SyncNext ==
    SyncCollect \/ SyncGroup \/ SyncBulkFetch \/ SyncReturn \/ DateFilter

SyncSpec == SyncInit /\ [][SyncNext]_vars

DateInit == EnvIdle /\ ResolveIdle /\ PairIdle /\ OffsetIdle /\ CursorIdle /\ DateStartState /\ AttrIdle

DateNext == DateFilter

DateSpec == DateInit /\ [][DateNext]_vars

AttrInit == EnvIdle /\ ResolveIdle /\ PairIdle /\ OffsetIdle /\ CursorIdle /\ SyncIdle /\ AttrStartState

AttrNext == IssuesFrame \/ FilterRecursos \/ AssignProyectoEconomico

AttrSpec == AttrInit /\ [][AttrNext]_vars

\* Each component against a server with one fault to show.
FaultTotals == {t \in Totals : t <= 4 * TotalStep}

FaultOffsetInit ==
    /\ srv_fault \in OffsetFaults
    /\ OffsetStartState
    /\ srv_total \in FaultTotals
    /\ CursorIdle /\ SyncIdle /\ AttrIdle /\ ResolveIdle /\ PairIdle

FaultCursorInit ==
    /\ srv_fault = "none"
    /\ OffsetIdle
    /\ srv_pages \in FaultyChains(CursorChains)
    /\ CursorStartLocals
    /\ SyncIdle /\ AttrIdle /\ ResolveIdle /\ PairIdle

FaultSyncInit ==
    OffsetIdle /\ FaultySyncStartState /\ AttrIdle /\ ResolveIdle /\ PairIdle

FaultInit == FaultOffsetInit \/ FaultCursorInit \/ FaultSyncInit

FaultNext ==
    \/ OffsetStart \/ OffsetRequest \/ OffsetYield
    \/ CursorFetch
    \/ SyncCollect \/ SyncGroup \/ SyncBulkFetch \/ SyncReturn \/ DateFilter

FaultSpec == FaultInit /\ [][FaultNext]_vars

\* the search may be answered well or, once, with a failure status
ResolveInit ==
    /\ srv_fault \in {"none", "status"}
    /\ ResolveStartState
    /\ CursorIdle /\ SyncIdle /\ AttrIdle /\ PairIdle

ResolveNext ==
    ResolveQuery \/ OffsetStart \/ OffsetRequest \/ OffsetYield \/ ResolveEnd

ResolveSpec == ResolveInit /\ [][ResolveNext]_vars

PairInit ==
    /\ EnvIdle /\ OffsetIdle /\ CursorIdle /\ SyncIdle /\ AttrIdle
    /\ ResolveIdle
    /\ PairStartState

PairNext == PairFirst \/ PairAdvance

PairSpec == PairInit /\ [][PairNext]_vars

--------------------------------------------------------------------------
(* Properties of the offset paginator.                                     *)

RECURSIVE CountRecords(_)
CountRecords(ranges) ==
    IF ranges = <<>> THEN 0
    ELSE RangeLen(Head(ranges)) + CountRecords(Tail(ranges))

\* The position reached when the ranges, in order, are laid end to end from
\* `pos` on; -1 when a range leaves a gap or repeats records. The records
\* 0..n-1 are yielded exactly once and in order iff EndToEnd(ys, 0) = n.
RECURSIVE EndToEnd(_, _)
EndToEnd(ranges, pos) ==
    IF ranges = <<>> THEN pos
    ELSE LET r == Head(ranges) IN
         IF r.lo = r.hi THEN EndToEnd(Tail(ranges), pos)
         ELSE IF r.lo = pos THEN EndToEnd(Tail(ranges), r.hi)
         ELSE -1

\* The page size in force after exchange e
SizeAfter(e) == Min(e.reported, e.maxResults)

\* C1: against a server that answers each request with the records from
\* startAt on, up to the page size it reports, the finished iteration has
\* yielded every one of the total records exactly once and in page order;
\* the first request is at offset 0, each later request is at the previous
\* offset plus the page size then in force, and no request is issued once
\* that offset has reached the total; with total 2250 and pages of
\* 1000/1000/250 it yields 2250 records in exactly 3 requests.
C1_OffsetYieldsAllOnce ==
    /\ off_pc = "done" =>
          /\ EndToEnd(off_yielded, 0) = srv_total
          /\ CountRecords(off_yielded) = srv_total
          /\ count_next >= srv_total
    /\ off_log # <<>> => off_log[1].startAt = 0
    /\ \A i \in 1..(Len(off_log) - 1) :
          /\ off_log[i+1].startAt = off_log[i].startAt + SizeAfter(off_log[i])
          /\ off_log[i+1].startAt < srv_total
    /\ (off_pc = "request" /\ off_log # <<>>) => count_next < srv_total
    /\ (/\ off_pc = "done"
        /\ srv_total = 2250
        /\ \A i \in 1..Len(off_log) : off_log[i].reported = 1000)
       => /\ Len(off_log) = 3
          /\ off_yielded = <<Range(0, 1000), Range(1000, 2000),
                             Range(2000, 2250)>>

C1_Witness ==
    /\ off_pc = "done"
    /\ srv_total = 2250
    /\ Len(off_log) = 3
    /\ \A i \in 1..3 : off_log[i].reported = 1000
    /\ CountRecords(off_yielded) = 2250

\* C2: once a response reports a page size smaller than the one requested,
\* the next request carries that size as maxResults and starts that many
\* records further, no later request carries a larger maxResults, and every
\* request carries the size reported by the response before it; the
\* finished iteration has yielded each record once, total records in all.
C2_ServerCapAdopted ==
    /\ \A i \in 1..Len(off_log) :
          off_log[i].reported < off_log[i].maxResults =>
             \A j \in (i+1)..Len(off_log) :
                /\ off_log[j].maxResults = off_log[j-1].reported
                /\ off_log[j].maxResults <= off_log[i].reported
                /\ off_log[j].startAt
                      = off_log[j-1].startAt + off_log[j-1].reported
    /\ (off_pc \in {"request", "yield"} /\ off_log # <<>>
           /\ Len(off_log) < MaxRequests) =>
          /\ parameters["maxResults"] = off_log[Len(off_log)].reported
          /\ results_per_page = off_log[Len(off_log)].reported
    /\ off_pc = "done" =>
          /\ CountRecords(off_yielded) = srv_total
          /\ EndToEnd(off_yielded, 0) = srv_total

C2_Witness ==
    /\ off_pc = "done"
    /\ Len(off_log) >= 3
    /\ off_log[1].maxResults = 1000
    /\ off_log[1].reported = 100
    /\ \A j \in 2..Len(off_log) :
          off_log[j].maxResults = 100 /\ off_log[j].reported = 100
    /\ CountRecords(off_yielded) = srv_total

\* C3: for every total and every page size the server reports (any size
\* from 0 up to the requested one), the iteration eventually terminates.
C3_OffsetTerminates == <>(off_pc = "done")

--------------------------------------------------------------------------
(* Properties of the cursor paginator.                                     *)

RECURSIVE ValuesUpTo(_, _)
ValuesUpTo(pages, k) ==
    IF k = 0 THEN <<>> ELSE ValuesUpTo(pages, k - 1) \o pages[k]["values"]

\* only the page that ends the chain carries lastPage = true
ProperChain(pages) ==
    \A i \in 1..Len(pages) : pages[i]["lastPage"] <=> i = Len(pages)

\* C4: on a chain of pages linked by nextPage, the cursor paginator has
\* requested the URLs of the chain in chain order, each once, and yielded
\* the concatenation of the values of the pages requested, in order; every
\* response before the last one received had lastPage = false, and the
\* iteration ends exactly on a response with lastPage = true; on a chain of
\* n pages of which only the last has lastPage = true it ends after exactly
\* n requests with all the values yielded.
C4_CursorFollowsChain ==
    /\ cur_requests = [i \in 1..Len(cur_requests) |-> i]
    /\ Len(cur_requests) <= Len(srv_pages)
    /\ cur_yielded = ValuesUpTo(srv_pages, Len(cur_requests))
    /\ \A i \in 1..(Len(cur_requests) - 1) : ~srv_pages[i]["lastPage"]
    /\ is_last_page <=>
          /\ cur_requests # <<>>
          /\ srv_pages[Len(cur_requests)]["lastPage"]
    /\ (is_last_page /\ ProperChain(srv_pages)) =>
          /\ Len(cur_requests) = Len(srv_pages)
          /\ cur_yielded = ValuesUpTo(srv_pages, Len(srv_pages))

C4_Witness ==
    /\ is_last_page
    /\ Len(srv_pages) = 2
    /\ ProperChain(srv_pages)
    /\ srv_pages[1]["values"] = <<Entry(1), Entry(2)>>
    /\ srv_pages[2]["values"] = <<Entry(2), Entry(2)>>
    /\ cur_requests = <<1, 2>>
    /\ cur_yielded = <<Entry(1), Entry(2), Entry(2), Entry(2)>>

--------------------------------------------------------------------------
(* Properties of worklog sync.                                             *)

RECURSIVE Flatten(_)
Flatten(lists) ==
    IF lists = <<>> THEN <<>> ELSE Head(lists) \o Flatten(Tail(lists))

IdsOf(worklogs) == {worklogs[i]["id"] : i \in 1..Len(worklogs)}

\* the last worklog with this id in the list
LastWith(worklogs, id) ==
    worklogs[CHOOSE i \in 1..Len(worklogs) :
                /\ worklogs[i]["id"] = id
                /\ \A j \in (i+1)..Len(worklogs) : worklogs[j]["id"] # id]

Returned == sync_pc \in {"filter", "done"}

\* C5: once every batch is processed, the record set returned holds exactly
\* one record for each distinct id found in the bulk-fetch responses, and
\* it is the record with that id that came last in request order.
C5_DedupLastWins ==
    Returned =>
       /\ IdsOf(all_worklogs) = IdsOf(Flatten(bulk_responses))
       /\ Cardinality(IdsOf(all_worklogs)) = Len(all_worklogs)
       /\ \A i \in 1..Len(all_worklogs) :
             all_worklogs[i]
                = LastWith(Flatten(bulk_responses), all_worklogs[i]["id"])

C5_Witness ==
    /\ Returned
    /\ Len(bulk_responses) = 2
    /\ Len(bulk_responses[1]) = 2
    /\ bulk_responses[1][1]["id"] = 1
    /\ bulk_responses[1][2]["id"] = 1
    /\ bulk_responses[1][1] # bulk_responses[1][2]
    /\ Len(bulk_responses[2]) = 2
    /\ bulk_responses[2][1]["id"] = 1
    /\ bulk_responses[2][1] # bulk_responses[1][2]
    /\ bulk_responses[2][2]["id"] = 2
    /\ all_worklogs = <<bulk_responses[2][1], bulk_responses[2][2]>>

--------------------------------------------------------------------------
(* Properties of the date filter.                                          *)

\* minutes on a monotone scale (months of 31 days)
Stamp(dt) == ((((dt.y * 12 + dt.mo) * 31 + dt.d) * 24) + dt.h) * 60 + dt.mi

Kept(worklog) ==
    \E i \in 1..Len(filtered_worklogs) : filtered_worklogs[i] = worklog

\* C6: a synced worklog is kept exactly when the calendar date of its
\* `started`, taken at 00:00, lies between start_date and end_date, both
\* ends included, whatever the time of day and the UTC offset written in
\* `started`; the kept worklogs keep their order. A worklog started
\* 2024-01-01 is kept when start_date is 2024-01-01, one started 2024-12-31
\* is dropped when end_date is 2024-12-30.
C6_DateFilterInclusive ==
    sync_pc = "done" =>
       /\ \A i \in 1..Len(all_worklogs) :
             \A day \in Days :
                LET started == all_worklogs[i]["started"]
                    midnight == DateTime(day[1], day[2], day[3], 0, 0)
                    inside == /\ Stamp(start_date) <= Stamp(midnight)
                              /\ Stamp(midnight) <= Stamp(end_date)
                IN  (\/ started = BareDate(day[1], day[2], day[3])
                     \/ \E t \in Clock, tz \in Offsets :
                           started = JiraStarted(day[1], day[2], day[3],
                                                 t[1], t[2], tz))
                    => (Kept(all_worklogs[i]) <=> inside)
       /\ \A i \in 1..Len(filtered_worklogs) :
             \E j \in 1..Len(all_worklogs) :
                filtered_worklogs[i] = all_worklogs[j]
       /\ \A i \in 1..Len(all_worklogs) :
             /\ (/\ all_worklogs[i]["started"] = BareDate(2024, 1, 1)
                 /\ start_date = DateTime(2024, 1, 1, 0, 0)
                 /\ end_date = DateTime(2024, 12, 30, 0, 0))
                => Kept(all_worklogs[i])
             /\ (/\ all_worklogs[i]["started"] = BareDate(2024, 12, 31)
                 /\ end_date = DateTime(2024, 12, 30, 0, 0))
                => ~Kept(all_worklogs[i])

C6_Witness ==
    /\ sync_pc = "done"
    /\ start_date = DateTime(2024, 1, 1, 0, 0)
    /\ end_date = DateTime(2024, 12, 30, 0, 0)
    /\ all_worklogs =
          <<Worklog(1, JiraStarted(2024, 1, 1, 23, 59,
                                   <<"-", "0", "3", "0", "0">>)),
            Worklog(2, JiraStarted(2024, 12, 30, 23, 59,
                                   <<"-", "0", "3", "0", "0">>))>>
    /\ filtered_worklogs = all_worklogs

--------------------------------------------------------------------------
(* Properties of attribution.                                              *)

\* the rows handed back, matched first
Output == cruzados_df \o no_cruzados_df

Allowed == {recursos_df[i] : i \in 1..Len(recursos_df)} \ {NaN}

\* positions of the Tareas rows whose KEY is the row's issue key
TaskRows(r) == {i \in 1..Len(tareas_df) : tareas_df[i]["KEY"] = r["issue_key"]}

\* positions of the Epicas rows whose Parent_Key is the row's parent key
EpicRows(r) ==
    {i \in 1..Len(epicas_df) : epicas_df[i]["Parent_Key"] = r["parent_key"]}

Last(s) == CHOOSE i \in s : \A j \in s : j <= i

\* the row's issue key and parent key are those of an issue record with the
\* worklog's issueId, or both absent when there is no such record
LinkedToIssue(r) ==
    \/ \E k \in 1..Len(issues_for_worklogs) :
          /\ issues_for_worklogs[k]["id"] = r["issueId"]
          /\ r["issue_key"] = issues_for_worklogs[k]["key"]
          /\ r["parent_key"] = Get(issues_for_worklogs[k], "parent", NaN)
    \/ /\ \A k \in 1..Len(issues_for_worklogs) :
             issues_for_worklogs[k]["id"] # r["issueId"]
       /\ r["issue_key"] = NaN
       /\ r["parent_key"] = NaN

RowsOf(id) == {i \in 1..Len(Output) : Output[i]["id"] = id}

\* C7: every worklog handed to attribution gets a row, and in every row the
\* resolved economic project id is the id of a task mapping for the issue
\* key when there is one (and then none of the epic mapping's ids),
\* otherwise the id of the epic mapping for the issue's parent key when
\* there is one, otherwise absent.
C7_TaskBeforeEpic ==
    attr_pc = "done" =>
       /\ \A i \in 1..Len(filtered_worklogs_df) :
             RowsOf(filtered_worklogs_df[i]["id"]) # {}
       /\ \A i \in 1..Len(Output) :
             LET r == Output[i] IN
             /\ LinkedToIssue(r)
             /\ TaskRows(r) # {} =>
                   /\ \E t \in TaskRows(r) :
                         r["Proyecto_Economico"]
                            = tareas_df[t]["Proyecto_Economico"]
                   /\ \A e \in EpicRows(r) :
                         r["Proyecto_Economico"]
                            # epicas_df[e]["Proyecto_Economico"]
             /\ (TaskRows(r) = {} /\ EpicRows(r) # {}) =>
                   r["Proyecto_Economico"]
                      = epicas_df[Last(EpicRows(r))]["Proyecto_Economico"]
             /\ (TaskRows(r) = {} /\ EpicRows(r) = {}) =>
                   r["Proyecto_Economico"] = NaN

C7_Witness ==
    /\ attr_pc = "done"
    /\ \E i \in 1..Len(cruzados_df) :
          /\ TaskRows(cruzados_df[i]) # {}
          /\ EpicRows(cruzados_df[i]) # {}
          /\ cruzados_df[i]["issue_key"] = "K1"
          /\ cruzados_df[i]["parent_key"] = "E1"
          /\ cruzados_df[i]["Proyecto_Economico"] = "T1"

\* C8: a row whose issue key has no task mapping and whose parent key has
\* an epic mapping carries the epic mapping's id, is in matched and not in
\* unmatched, and has no economic project name; a name appears only in a
\* row with a task mapping.
C8_EpicFallback ==
    attr_pc = "done" =>
       \A i \in 1..Len(Output) :
          LET r == Output[i] IN
          /\ LinkedToIssue(r)
          /\ (TaskRows(r) = {} /\ EpicRows(r) # {}) =>
                /\ r["Proyecto_Economico"]
                      = epicas_df[Last(EpicRows(r))]["Proyecto_Economico"]
                /\ r["Proyecto_Economico_Epicas"] = r["Proyecto_Economico"]
                /\ i <= Len(cruzados_df)
                /\ \A j \in 1..Len(no_cruzados_df) : no_cruzados_df[j] # r
                /\ r["N_Proyecto_Economico"] = NaN
          /\ r["N_Proyecto_Economico"] # NaN => TaskRows(r) # {}

C8_Witness ==
    /\ attr_pc = "done"
    /\ \E i \in 1..Len(cruzados_df) :
          /\ TaskRows(cruzados_df[i]) = {}
          /\ cruzados_df[i]["issue_key"] = "K1"
          /\ cruzados_df[i]["parent_key"] = "E1"
          /\ cruzados_df[i]["Proyecto_Economico"] = "P2"
          /\ cruzados_df[i]["N_Proyecto_Economico"] = NaN
          /\ Len(epicas_df) = 2

\* C9: whatever the issue records and the mapping tables, every worklog
\* handed to attribution appears exactly once across matched and unmatched,
\* so |matched| + |unmatched| = N, and a row is in matched exactly when its
\* resolved id is present.
C9_PartitionExact ==
    attr_pc = "done" =>
       /\ Len(cruzados_df) + Len(no_cruzados_df) = Len(filtered_worklogs_df)
       /\ \A i \in 1..Len(filtered_worklogs_df) :
             Cardinality(RowsOf(filtered_worklogs_df[i]["id"])) = 1
       /\ \A i \in 1..Len(Output) :
             i <= Len(cruzados_df) <=> Output[i]["Proyecto_Economico"] # NaN

\* C10: a worklog whose author is not in the resource allowlist is in
\* neither matched nor unmatched, and the worklogs handed to attribution
\* are exactly the worklogs whose author is in the allowlist, each of which
\* gets a row of the output.
C10_ResourceFilter ==
    /\ attr_pc \in {"assign", "done", "error"} =>
          /\ \A i \in 1..Len(worklogs_df) :
                worklogs_df[i]["author_displayName"] \in Allowed
                   <=> \E j \in 1..Len(filtered_worklogs_df) :
                          filtered_worklogs_df[j] = worklogs_df[i]
          /\ \A j \in 1..Len(filtered_worklogs_df) :
                \E i \in 1..Len(worklogs_df) :
                   filtered_worklogs_df[j] = worklogs_df[i]
    /\ attr_pc = "done" =>
          /\ \A i \in 1..Len(Output) :
                Output[i]["author_displayName"] \in Allowed
          /\ \A i \in 1..Len(worklogs_df) :
                worklogs_df[i]["author_displayName"] \in Allowed
                   <=> RowsOf(worklogs_df[i]["id"]) # {}

C10_Witness ==
    /\ attr_pc = "done"
    /\ Len(worklogs_df) = 2
    /\ worklogs_df[1]["author_displayName"] = "bob"
    /\ worklogs_df[2]["author_displayName"] = "ana"
    /\ Allowed = {"ana"}
    /\ Len(Output) = 1
    /\ Output[1]["id"] = 2

\* the worklog's issueId is the id of no issue record
Unresolved(r) ==
    \A k \in 1..Len(issues_for_worklogs) :
       issues_for_worklogs[k]["id"] # r["issueId"]

\* the worklog's issue record has no parent
Parentless(r) ==
    \E k \in 1..Len(issues_for_worklogs) :
       /\ issues_for_worklogs[k]["id"] = r["issueId"]
       /\ "parent" \notin DOMAIN issues_for_worklogs[k]

\* C17: a row of a worklog whose issueId matches no issue record has an
\* absent issue key and parent key, neither a task-level nor an epic-level
\* id, and is in unmatched; a row of a worklog whose issue has no parent
\* has no epic-level id, whatever rows the epic mapping holds.
C17_UnresolvedUnmatched ==
    attr_pc = "done" =>
       \A i \in 1..Len(Output) :
          LET r == Output[i] IN
          /\ Unresolved(r) =>
                /\ r["issue_key"] = NaN
                /\ r["parent_key"] = NaN
                /\ r["Proyecto_Economico_Tareas"] = NaN
                /\ r["Proyecto_Economico_Epicas"] = NaN
                /\ i > Len(cruzados_df)
          /\ Parentless(r) => r["Proyecto_Economico_Epicas"] = NaN

\* C18: when the epic mapping has several rows with one parent key, the
\* epic-level id of every row with that parent key is the id of the last of
\* them in load order, and the worklog of such a row has exactly one row
\* in the output.
C18_LastEpicRowWins ==
    attr_pc = "done" =>
       \A i \in 1..Len(Output) :
          LET r == Output[i] IN
          Cardinality(EpicRows(r)) >= 2 =>
             /\ r["Proyecto_Economico_Epicas"]
                   = epicas_df[Last(EpicRows(r))]["Proyecto_Economico"]
             /\ Cardinality(RowsOf(r["id"])) = 1

--------------------------------------------------------------------------
(* Properties of the batches of worklog sync.                              *)

\* the ids are grouped and the bulk-fetch loop has begun
Grouped == sync_pc \in {"fetch", "filter", "done"}

CeilDiv(n, d) == IF n % d = 0 THEN n \div d ELSE (n \div d) + 1

\* C14: the n ids collected are split, in order, into consecutive batches
\* that hold each id entry exactly once, each of at most 1000 ids and all
\* but the last of exactly 1000 (none is empty); the bulk-fetch requests
\* sent so far are the first batches, in batch order, one request each, so
\* a finished sync has sent ceil(n/1000) of them, and none when n = 0; no
\* bulk-fetch request is sent before the cursor pagination of the ids has
\* ended.
C14_BatchedBulkFetch ==
    /\ sync_pc = "collect" => bulk_requests = <<>>
    /\ bulk_requests # <<>> => is_last_page
    /\ Grouped =>
          LET groups == ids_in_groups_per_page
              n == Len(worklog_ids) IN
          /\ Flatten(groups) = worklog_ids
          /\ Len(groups) = CeilDiv(n, 1000)
          /\ \A g \in 1..Len(groups) :
                /\ Len(groups[g]) >= 1
                /\ Len(groups[g]) <= 1000
                /\ g < Len(groups) => Len(groups[g]) = 1000
          /\ Len(bulk_requests) <= Len(groups)
          /\ bulk_requests = SubSeq(groups, 1, Len(bulk_requests))
          /\ Returned => Len(bulk_requests) = CeilDiv(n, 1000)

\* 1001 ids went out as a batch of 1000 and a batch of 1
C14_Witness ==
    /\ Returned
    /\ Len(worklog_ids) = 1001
    /\ Len(bulk_requests) = 2
    /\ Len(bulk_requests[1]) = 1000
    /\ bulk_requests[2] = <<worklog_ids[1001]>>

\* C15: the ids sent to the bulk-fetch endpoint during one sync are
\* pairwise distinct, whatever the updated-ids endpoint returned.
C15_BulkIdsDistinct ==
    LET sent == Flatten(bulk_requests) IN
    Cardinality({sent[i] : i \in 1..Len(sent)}) = Len(sent)

--------------------------------------------------------------------------
(* Properties of the three fetch loops against a server with a fault.      *)

\* a status code outside 200..299
NonSuccess(status) == status < 200 \/ status > 299

\* the values of the pages at the first k URLs requested, status permitting
RECURSIVE YieldsUpTo(_)
YieldsUpTo(k) ==
    IF k = 0 THEN <<>>
    ELSE YieldsUpTo(k - 1) \o
         (IF NonSuccess(PageStatus(srv_pages[cur_requests[k]])) THEN <<>>
          ELSE PageValues(srv_pages[cur_requests[k]]))

\* C11: in the offset paginator, in the cursor paginator and in the
\* bulk-fetch loop a response with a non-success status is the last exchange
\* of the operation: nothing of it is yielded, no request follows it, the
\* operation has raised (it neither retries nor goes on), and a worklog
\* sync that met one returns no record set, not even the records of the
\* batches fetched before.
C11_FailureAborts ==
    /\ \A i \in 1..Len(off_log) :
          NonSuccess(off_log[i].status) =>
             /\ i = Len(off_log)
             /\ off_pc = "raised"
             /\ Len(off_yielded) = i - 1
    /\ \A i \in 1..Len(cur_requests) :
          NonSuccess(PageStatus(srv_pages[cur_requests[i]])) =>
             /\ i = Len(cur_requests)
             /\ cur_error = "HTTPError"
             /\ sync_pc = "idle" => cur_yielded = YieldsUpTo(i - 1)
             /\ sync_pc # "idle" =>
                   /\ sync_pc = "raised"
                   /\ bulk_requests = <<>>
                   /\ all_worklogs = <<>>
    /\ \A i \in 1..Len(bulk_statuses) :
          NonSuccess(bulk_statuses[i]) =>
             /\ i = Len(bulk_statuses)
             /\ Len(bulk_requests) = i
             /\ sync_pc = "raised"
             /\ all_worklogs = <<>>
             /\ filtered_worklogs = <<>>

\* the second bulk-fetch of a sync fails after the first brought records
C11_Witness ==
    /\ Len(bulk_statuses) = 2
    /\ bulk_statuses[1] = 200
    /\ bulk_statuses[2] = 500
    /\ Len(bulk_requests[1]) = worklogs_per_page
    /\ worklogs_by_id # <<>>
    /\ sync_pc = "raised"
    /\ all_worklogs = <<>>

\* the k-th response of the cursor endpoint
Requested(k) == srv_pages[cur_requests[k]]

\* a response with a good status that lacks the field
Lacks(resp, field) == PageStatus(resp) = 200 /\ field \notin DOMAIN resp

\* a cursor response that says lastPage = false and names no nextPage
Unlinked(resp) ==
    /\ PageStatus(resp) = 200
    /\ "lastPage" \in DOMAIN resp
    /\ ~resp["lastPage"]
    /\ "nextPage" \notin DOMAIN resp

\* what the pages at the first k URLs requested hold under `values`
RECURSIVE GivenUpTo(_)
GivenUpTo(k) ==
    IF k = 0 THEN <<>>
    ELSE GivenUpTo(k - 1) \o
         (IF "values" \in DOMAIN Requested(k) THEN Requested(k)["values"]
          ELSE <<>>)

SyncAborted ==
    /\ sync_pc = "raised"
    /\ all_worklogs = <<>>
    /\ filtered_worklogs = <<>>

\* C13 as stated: a response with a good status that lacks the result
\* field (offset page), `values` (cursor page), `nextPage` while lastPage
\* is false, `worklogId` (updated-id entry) or `id` (bulk-fetched worklog)
\* makes the operation raise when the field is first read; the operation
\* never goes on with a default in its place.
C13_MissingFieldFatal ==
    /\ \A i \in 1..Len(off_log) :
          (off_log[i].status = 200 /\ results_key \notin DOMAIN off_log[i].body)
             => off_pc = "raised"
    /\ \A i \in 1..Len(cur_requests) :
          (Lacks(Requested(i), "values") \/ Unlinked(Requested(i)))
             => (cur_error # "none" /\ i = Len(cur_requests))
    /\ ( \E i \in 1..Len(cur_requests) :
            /\ PageStatus(Requested(i)) = 200
            /\ "values" \in DOMAIN Requested(i)
            /\ \E k \in 1..Len(Requested(i)["values"]) :
                  "worklogId" \notin DOMAIN Requested(i)["values"][k] )
          => (sync_pc = "idle" \/ SyncAborted)
    /\ \A i \in 1..Len(bulk_responses) :
          ( /\ bulk_statuses[i] = 200
            /\ \E k \in 1..Len(bulk_responses[i]) :
                  "id" \notin DOMAIN bulk_responses[i][k] )
             => (SyncAborted /\ i = Len(bulk_responses))

\* C13, amended: a missing `nextPage` (while lastPage is false), a missing
\* `worklogId` and a missing `id` are fatal where they are first read: the
\* cursor paginator raises after yielding that page's values and requests
\* nothing more, and a sync that met one of the three returns no record set
\* (for a missing worklogId or nextPage it sends no bulk-fetch either). A
\* missing result field of an offset page and a missing `values` of a
\* cursor page are read as the empty list: that page yields nothing, the
\* paginator does not raise on it and goes on as the other fields say.
C13_MissingFieldAmended ==
    /\ \A i \in 1..Len(off_log) :
          (off_log[i].status = 200 /\ results_key \notin DOMAIN off_log[i].body)
             => /\ off_pc # "raised"
                /\ Len(off_yielded) >= i => RangeLen(off_yielded[i]) = 0
                /\ off_pc = "done" => Len(off_yielded) = Len(off_log)
    /\ \A i \in 1..Len(cur_requests) :
          /\ (Lacks(Requested(i), "values") /\ ~Unlinked(Requested(i)))
                => cur_error = "none"
          /\ Unlinked(Requested(i)) =>
                /\ i = Len(cur_requests)
                /\ ~is_last_page
                /\ sync_pc = "idle" => cur_error = "KeyError"
                /\ sync_pc # "idle" => (SyncAborted /\ bulk_requests = <<>>)
    /\ sync_pc = "idle" => cur_yielded = GivenUpTo(Len(cur_requests))
    /\ ( \E i \in 1..Len(cur_requests) :
            /\ PageStatus(Requested(i)) = 200
            /\ "values" \in DOMAIN Requested(i)
            /\ \E k \in 1..Len(Requested(i)["values"]) :
                  "worklogId" \notin DOMAIN Requested(i)["values"][k] )
          => (sync_pc = "idle" \/ (SyncAborted /\ bulk_requests = <<>>))
    /\ \A i \in 1..Len(bulk_responses) :
          ( /\ bulk_statuses[i] = 200
            /\ \E k \in 1..Len(bulk_responses[i]) :
                  "id" \notin DOMAIN bulk_responses[i][k] )
             => (SyncAborted /\ i = Len(bulk_responses))

\* a cursor iteration has ended normally over a page without `values`
C13_Witness ==
    /\ sync_pc = "idle"
    /\ Len(cur_requests) = 2
    /\ Lacks(Requested(1), "values")
    /\ cur_yielded = <<Entry(1), Entry(2)>>
    /\ is_last_page
    /\ cur_error = "none"

\* the offset iteration has run its prologue
OffsetStarted == off_pc \in {"request", "yield", "done", "raised"}

\* C20: a cursor response without lastPage is taken for the last page: its
\* values are yielded, its nextPage is not followed and no request comes
\* after it. An offset response without total is read as total 0: the
\* iteration yields that page and stops. A response without maxResults
\* leaves the page size as it was. Over an offset iteration the page size
\* is never above 1000 and never grows: each request asks for at most what
\* the one before asked for, and the size in force is at most that.
C20_FallbackDefaults ==
    /\ \A i \in 1..Len(cur_requests) :
          Lacks(Requested(i), "lastPage") =>
             /\ i = Len(cur_requests)
             /\ is_last_page
             /\ cur_error = "none"
             /\ sync_pc = "idle" => cur_yielded = GivenUpTo(i)
    /\ \A i \in 1..Len(off_log) :
          /\ (off_log[i].status = 200 /\ "total" \notin DOMAIN off_log[i].body)
                => /\ i = Len(off_log)
                   /\ off_pc \in {"yield", "done"}
                   /\ off_pc = "done" =>
                         /\ Len(off_yielded) = i
                         /\ off_yielded[i] =
                               Get(off_log[i].body, results_key, EmptyList)
          /\ (off_log[i].status = 200
                /\ "maxResults" \notin DOMAIN off_log[i].body)
                => /\ i < Len(off_log) =>
                         off_log[i + 1].maxResults = off_log[i].maxResults
                   /\ i = Len(off_log) =>
                         results_per_page = off_log[i].maxResults
    /\ OffsetStarted =>
          /\ results_per_page <= 1000
          /\ \A i \in 1..Len(off_log) :
                /\ off_log[i].maxResults <= 1000
                /\ results_per_page <= off_log[i].maxResults
                /\ i > 1 => off_log[i].maxResults <= off_log[i - 1].maxResults

\* the first of two linked pages has no lastPage: the iteration ended on it
C20_Witness ==
    /\ sync_pc = "idle"
    /\ Len(srv_pages) = 2
    /\ Lacks(srv_pages[1], "lastPage")
    /\ "nextPage" \in DOMAIN srv_pages[1]
    /\ cur_requests = <<1>>
    /\ cur_yielded = <<Entry(1), Entry(2)>>
    /\ is_last_page

--------------------------------------------------------------------------
(* Properties of two iterations advanced in turns.                         *)

IsPrefix(a, b) == Len(a) <= Len(b) /\ a = SubSeq(b, 1, Len(a))

\* an iteration driven to its end with no other iteration beside it
RECURSIVE RunAlone(_, _, _, _)
RunAlone(it, objs, total, caps) ==
    IF it.pc = "done" THEN it
    ELSE LET r == PairResume(it, objs, total, caps) IN
         RunAlone(r.it, r.objs, total, caps)

Alone(i) ==
    RunAlone(NewIteration(pair_iter[i].arg, pair_iter[i].fresh),
             InitialObjects(pair_given), pair_total, pair_caps)

\* C16: of two offset iterations advanced in any interleaving, started with
\* the same request-parameters object or with one each, each sends the
\* requests (startAt and maxResults) and yields the records that it sends
\* and yields when run alone against the same server.
C16_IterationsIndependent ==
    \A i \in DOMAIN pair_iter :
       /\ IsPrefix(pair_iter[i].log, Alone(i).log)
       /\ IsPrefix(pair_iter[i].yielded, Alone(i).yielded)
       /\ pair_iter[i].pc = "done" =>
             /\ pair_iter[i].log = Alone(i).log
             /\ pair_iter[i].yielded = Alone(i).yielded

--------------------------------------------------------------------------
(* Properties of issue resolution.                                         *)

\* C12: for an empty worklog list issue resolution sends no search request
\* (none, then, whose filter is `id in ()`) and returns the empty result.
C12_EmptyInputNoRequest ==
    res_worklogs = <<>> =>
       /\ off_log = <<>>
       /\ res_pc \notin {"start", "search"} =>
             res_pc = "returned" /\ res_issues = <<>>

==========================================================================
